---- MODULE Spec2Model ----
(***************************************************************************)
(* Model of check_sensitive_file.py: a filename denylist gate run before a *)
(* file read.  Strings are sequences of one-character strings, so that     *)
(* lower-casing and base-name extraction are computed character by         *)
(* character.  The host platform (which pathlib flavour Path resolves to)  *)
(* is not fixed by the program and is chosen in Init.                      *)
(***************************************************************************)
EXTENDS Integers, Sequences, FiniteSets, TLC

VARIABLES os_name, given, stdin, pc, data, file_path, filename, sensitive,
          result, exc, stdout, flushed, exit_code

vars == <<os_name, given, stdin, pc, data, file_path, filename, sensitive,
          result, exc, stdout, flushed, exit_code>>

(* ------------------------------ bounds --------------------------------- *)

\* Longest chain of directory segments put in front of a file name.
MaxDirs == 2

(* ------------------------- the denylist -------------------------------- *)

\* A character outside ASCII is written as its code point ("U+91CD"); such
\* characters have no case, so lower() leaves them alone.
SENSITIVE_FILES ==
    <<
       <<".", "e", "n", "v">>,
       <<".", "e", "n", "v", ".", "l", "o", "c", "a", "l">>,
       <<".", "e", "n", "v", ".", "p", "r", "o", "d", "u", "c", "t", "i", "o", "n">>,
       <<".", "e", "n", "v", ".", "d", "e", "v", "e", "l", "o", "p", "m", "e", "n", "t">>,
       <<"c", "o", "n", "f", "i", "g", ".", "j", "s", "o", "n">>,
       <<"s", "e", "c", "r", "e", "t", "s", ".", "j", "s", "o", "n">>,
       <<"c", "r", "e", "d", "e", "n", "t", "i", "a", "l", "s", ".", "j", "s", "o", "n">>,
       <<"a", "p", "i", "_", "k", "e", "y", "s", ".", "j", "s", "o", "n">>,
       <<"p", "r", "i", "v", "a", "t", "e", "_", "k", "e", "y", ".", "p", "e", "m">>,
       <<"i", "d", "_", "r", "s", "a">>,
       <<"i", "d", "_", "r", "s", "a", ".", "p", "u", "b">>,
       <<".", "s", "s", "h", "/", "i", "d", "_", "r", "s", "a">>,
       <<".", "s", "s", "h", "/", "i", "d", "_", "r", "s", "a", ".", "p", "u", "b">>,
       <<"p", "a", "s", "s", "w", "o", "r", "d", ".", "t", "x", "t">>,
       <<"p", "a", "s", "s", "w", "o", "r", "d", "s", ".", "t", "x", "t">>,
       <<"s", "e", "c", "r", "e", "t", ".", "t", "x", "t">>,
       <<"s", "e", "c", "r", "e", "t", "s", ".", "t", "x", "t">>,
       <<"d", "a", "t", "a", "b", "a", "s", "e", ".", "y", "m", "l">>,
       <<"d", "b", "_", "c", "o", "n", "f", "i", "g", ".", "j", "s", "o", "n">>,
       <<".", "a", "w", "s", "/", "c", "r", "e", "d", "e", "n", "t", "i", "a", "l", "s">>,
       <<".", "a", "w", "s", "/", "c", "o", "n", "f", "i", "g">>,
       <<"p", "r", "i", "v", "a", "t", "e", ".", "k", "e", "y">>,
       <<"s", "e", "c", "r", "e", "t", ".", "k", "e", "y">>,
       <<"t", "o", "k", "e", "n", ".", "t", "x", "t">>,
       <<"U+91CD", "U+8981", "U+8CC7", "U+8A0A", ".", "t", "x", "t">>
    >>

(* --------------------------- str.lower() ------------------------------- *)

UpperLetters ==
    <<"A", "B", "C", "D", "E", "F", "G", "H", "I", "J", "K", "L", "M",
      "N", "O", "P", "Q", "R", "S", "T", "U", "V", "W", "X", "Y", "Z">>

LowerLetters ==
    <<"a", "b", "c", "d", "e", "f", "g", "h", "i", "j", "k", "l", "m",
      "n", "o", "p", "q", "r", "s", "t", "u", "v", "w", "x", "y", "z">>

\* The cased characters and their lower- and upper-case forms, as tables.
LowerTable ==
    [c \in {UpperLetters[i] : i \in DOMAIN UpperLetters} |->
        LowerLetters[CHOOSE i \in DOMAIN UpperLetters : UpperLetters[i] = c]]

UpperTable ==
    [c \in {LowerLetters[i] : i \in DOMAIN LowerLetters} |->
        UpperLetters[CHOOSE i \in DOMAIN LowerLetters : LowerLetters[i] = c]]

LowerChar(c) == IF c \in DOMAIN LowerTable THEN LowerTable[c] ELSE c

UpperChar(c) == IF c \in DOMAIN UpperTable THEN UpperTable[c] ELSE c

\* s.lower(): every cased character folded to lower case, the rest kept.
Lower(s) == [i \in 1..Len(s) |-> LowerChar(s[i])]

Upper(s) == [i \in 1..Len(s) |-> UpperChar(s[i])]

\* A mixed casing of s: upper case at the odd positions when up is TRUE, at
\* the even positions otherwise.
Alternate(s, up) ==
    [i \in 1..Len(s) |->
        IF (i % 2 = 1) = up THEN UpperChar(s[i]) ELSE LowerChar(s[i])]

(* ------------------------- Path(file_path).name ------------------------ *)

\* The separators of the flavour: "/" on posix, "\" and "/" on nt.
IsSep(os, c) == IF os = "nt" THEN c \in {"/", "\\"} ELSE c = "/"

\* Position of the first separator of s at or after k, 0 when there is none.
FindSep(os, s, k) ==
    LET hits == {i \in k..Len(s) : IsSep(os, s[i])}
    IN  IF hits = {} THEN 0 ELSE CHOOSE i \in hits : \A j \in hits : i <= j

\* Where the part after drive and root starts.  Only the nt flavour has a
\* drive: \\server\share (two separators, then a server and a share name
\* divided by a single separator) is the drive of a UNC path.
RelStart(os, s) ==
    IF /\ os = "nt"
       /\ Len(s) >= 2 /\ IsSep(os, s[1]) /\ IsSep(os, s[2])
       /\ ~(Len(s) >= 3 /\ IsSep(os, s[3]))
    THEN LET index == FindSep(os, s, 3)
             index2 == IF index = 0 THEN 0 ELSE FindSep(os, s, index + 1)
         IN  IF index # 0 /\ index2 # index + 1
             THEN (IF index2 = 0 THEN Len(s) + 1 ELSE index2) + 1
             ELSE 1
    ELSE 1

\* The segment of s that starts at a and runs up to the next separator.
SegmentAt(os, s, a) ==
    LET e == FindSep(os, s, a)
    IN  SubSeq(s, a, (IF e = 0 THEN Len(s) + 1 ELSE e) - 1)

\* The text after the last separator, with no dropping of empty segments.
PathName_after_last_separator(os, s) ==
    LET seps == {i \in 1..Len(s) : IsSep(os, s[i])}
        last == IF seps = {} THEN 0 ELSE CHOOSE i \in seps : \A j \in seps : j <= i
    IN  SubSeq(s, last + 1, Len(s))

\* Path(s).name: the last segment of the part after drive and root; empty
\* segments and "." segments are dropped when the path is parsed, so a
\* trailing separator does not hide the segment before it.
PathName(os, s) ==
    LET r == RelStart(os, s)
        starts == {a \in r..Len(s) :
                     /\ (a = r \/ IsSep(os, s[a - 1]))
                     /\ SegmentAt(os, s, a) \notin {<<>>, <<".">>}}
    IN  IF starts = {} THEN <<>>
        ELSE SegmentAt(os, s, CHOOSE a \in starts : \A b \in starts : b <= a)

(* --------------------------- Python values ----------------------------- *)

PyStr(s) == [type |-> "str", str |-> s]
PyInt(n) == [type |-> "int", n |-> n]
PyBool(b) == [type |-> "bool", b |-> b]
PyNone == [type |-> "NoneType"]
PyList(n) == [type |-> "list", len |-> n]
PyDict(items) == [type |-> "dict", items |-> items]

\* bool(v), as `if not file_path` evaluates it.
Truthy(v) ==
    CASE v.type = "str" -> Len(v.str) > 0
      [] v.type = "int" -> v.n # 0
      [] v.type = "bool" -> v.b
      [] v.type = "NoneType" -> FALSE
      [] v.type = "list" -> v.len > 0
      [] v.type = "dict" -> DOMAIN v.items # {}

(* ---------------------- get_filename_from_path ------------------------- *)

\* Path(file_path) raises TypeError for anything that is not a str.
PathRaises(v) == Truthy(v) /\ v.type # "str"

get_filename_from_path(os, v) ==
    IF ~Truthy(v) THEN <<>> ELSE PathName(os, v.str)

(* -------------------------- is_sensitive_file -------------------------- *)

RECURSIVE SensitiveLoop(_, _)
\* The for loop over SENSITIVE_FILES from entry i on, returning at the first hit.
SensitiveLoop(filename_lower, i) ==
    IF i > Len(SENSITIVE_FILES) THEN FALSE
    ELSE IF filename_lower = Lower(SENSITIVE_FILES[i]) THEN TRUE
    ELSE SensitiveLoop(filename_lower, i + 1)

\* A denylist test that accepts any name an entry is a prefix of.
is_sensitive_file_prefix(name) ==
    /\ Len(name) > 0
    /\ \E i \in DOMAIN SENSITIVE_FILES :
         LET e == Lower(SENSITIVE_FILES[i])
         IN  Len(e) <= Len(name) /\ SubSeq(Lower(name), 1, Len(e)) = e

is_sensitive_file(name) ==
    IF Len(name) = 0 THEN FALSE ELSE SensitiveLoop(Lower(name), 1)

\* classify in the specification's words: the two functions composed.
classify(os, p) == is_sensitive_file(get_filename_from_path(os, PyStr(p)))


(* ------------------------------ messages ------------------------------- *)

\* The fixed Chinese text of each f-string is kept as one piece of text,
\* written here in ASCII; the interpolated parts are kept character by
\* character.

\* str(e) of a caught exception, one piece of text per exception type.
ExceptionText(e) == "str(" \o e \o ")"

\* The f-string of line 101: a fixed prefix, then str(e).
JsonErrorMessage(e) == <<"JSON-parse-error: ", ExceptionText(e)>>

\* A denial text that leaves the file name out.
DenyMessage_without_name(name) ==
    <<"cannot-read-sensitive-file: ">> \o <<". blocked-to-protect-your-data.">>

\* The f-string of line 127: prefix, the file name, suffix.
DenyMessage(name) ==
    <<"cannot-read-sensitive-file: ">> \o name \o <<". blocked-to-protect-your-data.">>

\* The f-string of line 142: a fixed prefix, then str(e).
FaultMessage(e) == <<"error-during-check: ", ExceptionText(e)>>

\* A JSON-error dict that carries no message.
JsonErrorResult_silent(e) == [permission |-> "allow"]

\* The dict built by the JSON-error branch.
JsonErrorResult(e) == [permission |-> "allow", user_message |-> JsonErrorMessage(e)]

\* An outermost handler that fails closed.
FaultResult_deny(e) == [permission |-> "deny", user_message |-> FaultMessage(e)]

\* The dict built by the outermost handler.
FaultResult(e) == [permission |-> "allow", user_message |-> FaultMessage(e)]

\* A no-path dict that carries a message.
NoPathResult_with_message ==
    [permission |-> "allow", user_message |-> <<"no-file-path">>]

\* The dict built when file_path is falsy.
NoPathResult == [permission |-> "allow"]

\* The dict built from the verdict of is_sensitive_file.
VerdictResult(hit, name) ==
    IF hit THEN [permission |-> "deny", user_message |-> DenyMessage(name)]
    ELSE [permission |-> "allow"]

\* json.dumps(result, ensure_ascii=False): the members in insertion order,
\* every value a JSON string given as its pieces of text.
json_dumps(r) ==
    IF "user_message" \in DOMAIN r
    THEN <<[key |-> "permission", value |-> <<r.permission>>],
           [key |-> "user_message", value |-> r.user_message]>>
    ELSE <<[key |-> "permission", value |-> <<r.permission>>]>>

(* ------------------------------- inputs -------------------------------- *)

Range(s) == {s[i] : i \in DOMAIN s}

OsNames == {"posix", "nt"}

Separators == {"/", "\\"}

\* Directory segments put in front of a name: plain, empty, ".", and two that
\* are themselves on (or lead into an entry of) the denylist.
DirSegments ==
    { <<"a">>, <<>>, <<".">>, <<".", "e", "n", "v">>, <<".", "a", "w", "s">> }

\* Names tried behind directory segments: entries of the list in several
\* casings, near misses, safe names and the names that are no file name.
PrefixedNames ==
    { <<".", "e", "n", "v">>, <<".", "E", "N", "V">>, <<".", "E", "n", "v">>,
      <<"c", "o", "n", "f", "i", "g", ".", "j", "s", "o", "n">>,
      <<"c", "o", "n", "f", "i", "g", ".", "j", "s", "o", "n", ".", "b", "a", "k">>,
      <<"m", "y", "c", "o", "n", "f", "i", "g", ".", "j", "s", "o", "n">>,
      <<"n", "o", "t", "e", "s", ".", "t", "x", "t">>,
      <<"c", "r", "e", "d", "e", "n", "t", "i", "a", "l", "s">>,
      <<"i", "d", "_", "r", "s", "a">>,
      <<"U+91CD", "U+8981", "U+8CC7", "U+8A0A", ".", "t", "x", "t">>,
      <<>>, <<".">>, <<".", ".">> }

NearMisses ==
    { <<"c", "o", "n", "f", "i", "g", ".", "j", "s", "o", "n", ".", "b", "a", "k">>,
      <<"m", "y", "c", "o", "n", "f", "i", "g", ".", "j", "s", "o", "n">> }

\* The casings of an entry that are tried: as written, upper, and two mixed.
CaseVariants(s) == {s, Upper(s), Alternate(s, TRUE), Alternate(s, FALSE)}

DirSeqs == UNION {[1..k -> DirSegments] : k \in 0..MaxDirs}

RECURSIVE JoinDirs(_, _)
JoinDirs(dirs, sep) ==
    IF Len(dirs) = 0 THEN <<>>
    ELSE Head(dirs) \o <<sep>> \o JoinDirs(Tail(dirs), sep)

\* The path text of a construction: every directory segment followed by the
\* separator, then the name.
PathOf(g) == JoinDirs(g.dirs, g.sep) \o g.name

\* How a path is put together: directory segments, a name, a separator style.
Givens ==
    [dirs : DirSeqs, name : PrefixedNames, sep : Separators]
    \cup [dirs : {<<>>},
          name : UNION {CaseVariants(e) : e \in Range(SENSITIVE_FILES)},
          sep : {"/"}]

NoGiven == [dirs |-> <<>>, name |-> <<>>, sep |-> "/"]

\* JSON values of file_path that are no string, and the empty string.
OtherFieldValues ==
    { PyStr(<<>>), PyInt(0), PyInt(5), PyBool(FALSE), PyBool(TRUE), PyNone,
      PyList(0), PyList(1), PyDict(<<>>), PyDict([other |-> PyInt(5)]) }

\* JSON documents that are no object.
NonObjects ==
    { PyStr(<<".", "e", "n", "v">>), PyInt(0), PyInt(5), PyBool(TRUE), PyNone,
      PyList(0), PyList(1) }

\* An object holding file_path, with or without a second member.
ObjectWith(v, extra) ==
    IF extra THEN PyDict([file_path |-> v, other |-> PyInt(5)])
    ELSE PyDict([file_path |-> v])

\* What stdin holds: bytes that are no UTF-8, text that is no JSON, JSON
\* nested too deep for the parser, or a JSON document.
StdinWithoutPath ==
    { [kind |-> "bad_utf8"], [kind |-> "bad_json"], [kind |-> "nested_json"] }
    \cup {[kind |-> "json", value |-> v] : v \in NonObjects}
    \cup {[kind |-> "json", value |-> PyDict(<<>>)],
          [kind |-> "json", value |-> PyDict([other |-> PyInt(5)])]}
    \cup {[kind |-> "json", value |-> ObjectWith(v, x)] :
             v \in OtherFieldValues, x \in BOOLEAN}

None == [type |-> "unbound"]

(* ------------------------------- main() -------------------------------- *)

InitLocals ==
    /\ filename = <<>>
    /\ sensitive = FALSE
    /\ result = None
    /\ exc = "none"
    /\ stdout = <<>>
    /\ flushed = 0
    /\ exit_code = -1

Init ==
    /\ os_name \in OsNames
    /\ \/ /\ given \in Givens
          /\ \E x \in BOOLEAN :
               stdin = [kind |-> "json",
                        value |-> ObjectWith(PyStr(PathOf(given)), x)]
       \/ /\ given = NoGiven
          /\ stdin \in StdinWithoutPath
    /\ data = None
    /\ file_path = None
    /\ pc = "read"
    /\ InitLocals

\* write() of the encoded document, then flush().
Emit(r) ==
    /\ stdout' = Append(stdout, json_dumps(r))
    /\ flushed' = Len(stdout')

\* Line 92: read stdin and decode it as UTF-8.
Decode ==
    /\ pc = "read"
    /\ IF stdin.kind = "bad_utf8"
       THEN pc' = "except" /\ exc' = "UnicodeDecodeError"
       ELSE pc' = "parse" /\ exc' = exc
    /\ UNCHANGED <<os_name, given, stdin, data, file_path, filename, sensitive,
                   result, stdout, flushed, exit_code>>

\* Lines 95-97: json.loads; JSONDecodeError goes to the inner handler, any
\* other exception to the outer one.
Loads ==
    /\ pc = "parse"
    /\ CASE stdin.kind = "bad_json" ->
              pc' = "json_error" /\ exc' = "JSONDecodeError" /\ data' = data
         [] stdin.kind = "nested_json" ->
              pc' = "except" /\ exc' = "RecursionError" /\ data' = data
         [] stdin.kind = "json" ->
              pc' = "get" /\ exc' = exc /\ data' = stdin.value
    /\ UNCHANGED <<os_name, given, stdin, file_path, filename, sensitive,
                   result, stdout, flushed, exit_code>>

\* Lines 98-106 with the return left out: control falls through to line 109,
\* where data is unbound.
JsonErrorBranch_no_return ==
    /\ pc = "json_error"
    /\ result' = JsonErrorResult(exc)
    /\ Emit(result')
    /\ pc' = "except"
    /\ exc' = "NameError"
    /\ UNCHANGED <<os_name, given, stdin, data, file_path, filename, sensitive,
                   exit_code>>

\* Lines 98-106: the JSON-error branch builds its dict, writes it, returns.
JsonErrorBranch ==
    /\ pc = "json_error"
    /\ result' = JsonErrorResult(exc)
    /\ Emit(result')
    /\ pc' = "return"
    /\ UNCHANGED <<os_name, given, stdin, data, file_path, filename, sensitive,
                   exc, exit_code>>

\* Line 109: data.get("file_path", ""); only a dict has get.
GetFilePath ==
    /\ pc = "get"
    /\ IF data.type # "dict"
       THEN pc' = "except" /\ exc' = "AttributeError" /\ file_path' = file_path
       ELSE /\ pc' = "test_path"
            /\ exc' = exc
            /\ file_path' = IF "file_path" \in DOMAIN data.items
                            THEN data.items["file_path"]
                            ELSE PyStr(<<>>)
    /\ UNCHANGED <<os_name, given, stdin, data, filename, sensitive, result,
                   stdout, flushed, exit_code>>

\* Lines 111-117: a falsy file_path is allowed at once.
TestPath ==
    /\ pc = "test_path"
    /\ IF ~Truthy(file_path)
       THEN result' = NoPathResult /\ Emit(result') /\ pc' = "return"
       ELSE pc' = "name" /\ UNCHANGED <<result, stdout, flushed>>
    /\ UNCHANGED <<os_name, given, stdin, data, file_path, filename, sensitive,
                   exc, exit_code>>

\* Line 120: get_filename_from_path(file_path).
GetFilename ==
    /\ pc = "name"
    /\ IF PathRaises(file_path)
       THEN pc' = "except" /\ exc' = "TypeError" /\ filename' = filename
       ELSE /\ pc' = "verdict"
            /\ exc' = exc
            /\ filename' = get_filename_from_path(os_name, file_path)
    /\ UNCHANGED <<os_name, given, stdin, data, file_path, sensitive, result,
                   stdout, flushed, exit_code>>

\* Lines 123-131: the verdict and the dict built from it.
Verdict ==
    /\ pc = "verdict"
    /\ sensitive' = is_sensitive_file(filename)
    /\ result' = VerdictResult(sensitive', filename)
    /\ pc' = "write"
    /\ UNCHANGED <<os_name, given, stdin, data, file_path, filename, exc,
                   stdout, flushed, exit_code>>

\* Lines 134-136: the verdict's dict is written.
WriteResult ==
    /\ pc = "write"
    /\ Emit(result)
    /\ pc' = "return"
    /\ UNCHANGED <<os_name, given, stdin, data, file_path, filename, sensitive,
                   result, exc, exit_code>>

\* Lines 138-146: the outermost handler.
OuterHandler ==
    /\ pc = "except"
    /\ result' = FaultResult(exc)
    /\ Emit(result')
    /\ pc' = "return"
    /\ UNCHANGED <<os_name, given, stdin, data, file_path, filename, sensitive,
                   exc, exit_code>>

\* Lines 149-150: main returns and the interpreter exits with status 0.
Exit ==
    /\ pc = "return"
    /\ pc' = "exited"
    /\ exit_code' = 0
    /\ UNCHANGED <<os_name, given, stdin, data, file_path, filename, sensitive,
                   result, exc, stdout, flushed>>

Next ==
    \/ Decode
    \/ Loads
    \/ JsonErrorBranch
    \/ GetFilePath
    \/ TestPath
    \/ GetFilename
    \/ Verdict
    \/ WriteResult
    \/ OuterHandler
    \/ Exit

Spec == Init /\ [][Next]_vars

\* main() is straight-line code: a step that can be taken is taken.
LiveSpec == Spec /\ WF_vars(Next)

(* ------------------- the two functions called directly ----------------- *)

\* A caller hands a path to get_filename_from_path and the name it returns
\* to is_sensitive_file.
ClassifyInit ==
    /\ os_name \in OsNames
    /\ given \in Givens
    /\ stdin = [kind |-> "none"]
    /\ data = None
    /\ file_path = PyStr(PathOf(given))
    /\ pc = "call_get_filename"
    /\ InitLocals

CallGetFilename ==
    /\ pc = "call_get_filename"
    /\ filename' = get_filename_from_path(os_name, file_path)
    /\ pc' = "call_is_sensitive"
    /\ UNCHANGED <<os_name, given, stdin, data, file_path, sensitive, result,
                   exc, stdout, flushed, exit_code>>

CallIsSensitive ==
    /\ pc = "call_is_sensitive"
    /\ sensitive' = is_sensitive_file(filename)
    /\ pc' = "called"
    /\ UNCHANGED <<os_name, given, stdin, data, file_path, filename, result,
                   exc, stdout, flushed, exit_code>>

ClassifyNext ==
    \/ CallGetFilename
    \/ CallIsSensitive

ClassifySpec == ClassifyInit /\ [][ClassifyNext]_vars

(* ------------------------- reading the state -------------------------- *)

\* The path text handed to the two functions called directly.
GivenPath == PathOf(given)

IsObjectInput == stdin.kind = "json" /\ stdin.value.type = "dict"

HasField == IsObjectInput /\ "file_path" \in DOMAIN stdin.value.items

\* The file_path member of the input object.
Field == stdin.value.items["file_path"]

HasPathString == HasField /\ Field.type = "str" /\ Len(Field.str) > 0

AllowOnly == <<[key |-> "permission", value |-> <<"allow">>]>>

IsDeny(doc) == doc[1].key = "permission" /\ doc[1].value = <<"deny">>

IsAllow(doc) == doc[1].key = "permission" /\ doc[1].value = <<"allow">>

\* The document carries a user_message that is not the empty text.
HasMessage(doc) ==
    /\ Len(doc) = 2
    /\ doc[2].key = "user_message"
    /\ \E i \in DOMAIN doc[2].value : doc[2].value[i] # ""

\* s occurs in m as a run of consecutive characters.
Contains(m, s) ==
    \E i \in 1..(Len(m) - Len(s) + 1) : SubSeq(m, i, i + Len(s) - 1) = s

OnDenylist(name) ==
    \E e \in Range(SENSITIVE_FILES) : Lower(name) = Lower(e)

(* -------------------------------- C1 ----------------------------------- *)

\* C1: classify(p) is true exactly when the base file name of p, lower-cased,
\* equals the lower-cased form of some entry of SENSITIVE_FILES; a base name
\* that only contains or extends an entry (config.json.bak, myconfig.json)
\* gives false.
C1_ExactMatch ==
    pc = "called" =>
        LET base == PathName(os_name, GivenPath)
        IN  /\ filename = base
            /\ sensitive = OnDenylist(base)
            /\ (Lower(base) \in NearMisses => ~sensitive)

C1_Witness ==
    /\ pc = "called"
    /\ Len(given.dirs) > 0
    /\ filename = <<"c", "o", "n", "f", "i", "g", ".", "j", "s", "o", "n", ".", "b", "a", "k">>
    /\ ~sensitive

(* -------------------------------- C2 ----------------------------------- *)

\* C2: for every entry f of SENSITIVE_FILES, the entries holding a directory
\* separator included, and every casing of f, classify(f) is true.
C2_EveryEntryEveryCasing ==
    ( /\ pc = "called"
      /\ given.dirs = <<>>
      /\ \E e \in Range(SENSITIVE_FILES) : given.name \in CaseVariants(e) )
    => sensitive

(* -------------------------------- C3 ----------------------------------- *)

\* C3: for every file name n and every chain of directory segments, classify
\* of the chain joined to n with "/", classify of it joined with "\", and
\* classify(n) are the same value.
C3_PrefixAndSeparatorInvariant ==
    ( /\ pc = "called"
      /\ given.name \notin {<<>>, <<".">>, <<".", ".">>} )
    => sensitive = classify(os_name, given.name)

(* -------------------------------- C4 ----------------------------------- *)

\* C4 as claimed: classify is false for the empty path and for every path
\* that ends in a separator.
C4_TrailingSeparatorFalse ==
    ( /\ pc = "called"
      /\ \/ Len(GivenPath) = 0
         \/ IsSep(os_name, GivenPath[Len(GivenPath)]) )
    => ~sensitive

\* The path names no file at all: it is empty or made of separators only.
OnlySeparators(os, p) == \A i \in DOMAIN p : IsSep(os, p[i])

\* A relative path whose last segment is on the denylist, followed by one
\* trailing separator of the platform.
SensitiveDirWithTrailingSep ==
    /\ given.name = <<>>
    /\ Len(given.dirs) > 0
    /\ IsSep(os_name, given.sep)
    /\ \A i \in DOMAIN given.dirs : given.dirs[i] \notin {<<>>, <<".">>}
    /\ OnDenylist(given.dirs[Len(given.dirs)])

\* C4 amended: classify is false for the empty path and for every path made
\* of separators only (the base name is then empty); a trailing separator
\* after a named segment is dropped, so a relative path whose last segment is
\* a sensitive name, such as a/.env/, is classified true.
C4_NoNameFalse ==
    pc = "called" =>
        /\ (OnlySeparators(os_name, GivenPath) => filename = <<>> /\ ~sensitive)
        /\ (SensitiveDirWithTrailingSep => sensitive)

C4_Witness ==
    /\ pc = "called"
    /\ GivenPath = <<"a", "/", ".", "e", "n", "v", "/">>
    /\ sensitive

(* -------------------------------- C5 ----------------------------------- *)

\* C5 as claimed: when file_path of the parsed object is absent, empty or
\* not a string, the output is exactly {permission: allow}.
C5_NoStringAllowedSilently ==
    ( /\ pc = "exited"
      /\ IsObjectInput
      /\ (HasField => Field.type # "str" \/ Len(Field.str) = 0) )
    => stdout = <<AllowOnly>>

\* C5 amended: when file_path is absent or falsy (empty string, 0, false,
\* null, empty list, empty object) the output is exactly {permission: allow};
\* a truthy value that is not a string (a non-zero number, true, a non-empty
\* list or object) is allowed too, but with a user_message from the outermost
\* handler.
C5_FalsyAllowedSilently ==
    ( pc = "exited" /\ IsObjectInput ) =>
        /\ (~HasField \/ ~Truthy(Field)) => stdout = <<AllowOnly>>
        /\ (HasField /\ Truthy(Field) /\ Field.type # "str") =>
               /\ Len(stdout) = 1
               /\ IsAllow(stdout[1])
               /\ HasMessage(stdout[1])

C5_Witness ==
    /\ pc = "exited"
    /\ HasField
    /\ Field = PyInt(0)
    /\ stdout = <<AllowOnly>>

(* -------------------------------- C6 ----------------------------------- *)

\* C6: a deny document is written only when the input parses to an object
\* whose file_path is a string with a base name classified sensitive; every
\* failure path (bytes that do not decode, text that does not parse, a JSON
\* value that is no object, a field of an unexpected type) ends in allow.
C6_FailOpen ==
    /\ \A i \in DOMAIN stdout :
         IsDeny(stdout[i]) => HasPathString /\ classify(os_name, Field.str)
    /\ ( /\ pc = "exited"
         /\ \/ ~IsObjectInput
            \/ (HasField /\ PathRaises(Field)) )
       => Len(stdout) > 0 /\ \A i \in DOMAIN stdout : IsAllow(stdout[i])

C6_Witness ==
    /\ pc = "exited"
    /\ stdin.kind = "json"
    /\ stdin.value.type = "list"
    /\ Len(stdout) = 1
    /\ IsAllow(stdout[1])

(* -------------------------------- C7 ----------------------------------- *)

\* C7: for an input whose file_path is a non-empty string the output is
\* {permission: deny, user_message: m}, m containing the base file name, when
\* classify is true, and exactly {permission: allow} otherwise; permission
\* is always present and is allow or deny, and user_message is present only
\* on denials and on error paths.
C7_VerdictDocument ==
    /\ ( pc = "exited" /\ HasPathString ) =>
         /\ Len(stdout) = 1
         /\ IF classify(os_name, Field.str)
            THEN /\ IsDeny(stdout[1])
                 /\ HasMessage(stdout[1])
                 /\ Contains(stdout[1][2].value, PathName(os_name, Field.str))
            ELSE stdout[1] = AllowOnly
    /\ \A i \in DOMAIN stdout :
         /\ IsAllow(stdout[i]) \/ IsDeny(stdout[i])
         /\ stdout[i] # AllowOnly =>
              HasMessage(stdout[i]) /\ (IsDeny(stdout[i]) \/ exc # "none")

C7_Witness ==
    /\ pc = "exited"
    /\ HasPathString
    /\ Len(given.dirs) > 0
    /\ filename = <<".", "E", "N", "V">>
    /\ IsDeny(stdout[1])

(* -------------------------------- C8 ----------------------------------- *)

\* C8: input that is not valid UTF-8, or not valid JSON, gives a document
\* with permission allow and a non-empty user_message, and the exit is clean.
C8_MalformedInputAllowed ==
    /\ ( stdin.kind \in {"bad_utf8", "bad_json"} /\ Len(stdout) > 0 ) =>
         /\ Len(stdout) = 1
         /\ IsAllow(stdout[1])
         /\ HasMessage(stdout[1])
    /\ ( stdin.kind \in {"bad_utf8", "bad_json"} /\ pc = "exited" ) =>
         Len(stdout) = 1 /\ exit_code = 0

C8_Witness ==
    /\ pc = "exited"
    /\ stdin.kind = "bad_json"
    /\ Len(stdout) = 1
    /\ exit_code = 0

(* -------------------------------- C9 ----------------------------------- *)

\* C9: every run terminates, and on every control path exactly one document
\* has been written and flushed when it does, never none and never two, and
\* the exit status is 0.
C9_ExactlyOneDecision ==
    /\ <>(pc = "exited")
    /\ [](Len(stdout) <= 1 /\ flushed = Len(stdout))
    /\ [](pc = "exited" => Len(stdout) = 1 /\ flushed = 1 /\ exit_code = 0)

C9_Witness ==
    /\ pc = "exited"
    /\ exc = "TypeError"
    /\ Len(stdout) = 1
    /\ flushed = 1
    /\ exit_code = 0

====
